---- MODULE Spec2Model ----
(***************************************************************************)
(* Delay-compensated rollout pipeline of slippi_ai.evaluators.RolloutWorker *)
(* (src/slippi_ai/evaluators.py).  The worker is modelled statement by      *)
(* statement with a control position pc; the delayed agents and the batched *)
(* environment it drives (slippi_ai.eval_lib, slippi_ai.envs) are modelled  *)
(* from their push/pop/peek contract.                                       *)
(*                                                                          *)
(* Spec is the worker from its constructor on.  SpecFail adds operations    *)
(* that raise and a caller that calls rollout() again afterwards; SpecStop  *)
(* adds stop().  SpecPolicy is a Policy with one call of unroll or         *)
(* multi_sample (src/slippi_ai/policies.py), SpecRun the training loop of   *)
(* run_lib.run with its LearnerManager (src/slippi_ai/rl/run_lib.py), and   *)
(* SpecRay a RayEvaluator with its remote workers.                          *)
(*                                                                          *)
(* A game state is a frame [t, needs_reset]: t is the frame number counted  *)
(* from the environment's initial state.  A sample output is tagged with    *)
(* the frame it was computed from (controller_state = t), or with Dummy     *)
(* for an agent's dummy_sample_outputs.                                     *)
(***************************************************************************)
EXTENDS Integers, Sequences, FiniteSets, TLC

\* ----- bounds -----------------------------------------------------------
MaxDelay == 3          \* agent.delay ranges over 0..MaxDelay
MaxBatchSteps == 2     \* agent.batch_steps ranges over 1..MaxBatchSteps
MaxEnvSteps == 2       \* env.num_steps ranges over 1..MaxEnvSteps
MaxNumSteps == 5       \* num_steps of one rollout() call ranges over 0..MaxNumSteps
MaxFrames == 5         \* total number of loop iterations over all rollout() calls
MaxEpisodeLen == 1     \* an episode lasts 1..MaxEpisodeLen frames, or never ends (0)
MaxFailures == 1       \* operations that raise in one behaviour

Ports == {1, 2}
PortSets == {{1}, {1, 2}}
PlayerSets == {{1}, {2}, {1, 2}}
Dummy == -1

VARIABLES
  pc,                  \* control position of the worker
  agents,              \* self._agents: port -> delayed agent
  env,                 \* self._env
  async_inference,     \* constructor argument
  async_envs,          \* constructor argument
  prev_agent_outputs,  \* self._prev_agent_outputs (deque, left end first)
  prime_left,          \* remaining iterations of the priming loop
  caller,              \* who called _push_actions: "prime" or "rollout"
  outputs,             \* local dict of _push_actions
  num_steps,           \* argument of the rollout() call in progress / last returned
  step,                \* iterations of the rollout loop completed in this call
  output,              \* local: last result of self._env.pop()
  gamestates,          \* local buffers of rollout()
  sample_outputs,
  is_resetting,
  initial_states,
  delayed_actions,
  trajectories,        \* value returned by the last rollout() (<<>> when none)
  pushed,              \* history: action sets handed to env.push, in order
  env_pops,            \* history: number of env.pop() calls that returned
  peek_log,            \* history: per port, the peek_n calls of this rollout
  prev_overlap,        \* history: per port, what the previous call returned last
  players,             \* ports of dolphin_kwargs['players'] (the environment's ports)
  live,                \* agents / environment that are built and not stopped
  failed_op,           \* history: operation that raised in this rollout() call
  failures,            \* history: number of operations that have raised
  policy,              \* a Policy and the unroll / multi_sample call made on it
  manager,             \* run_lib.run: the training loop and its LearnerManager
  evaluator            \* a RayEvaluator and its remote workers

worker_vars == <<pc, agents, env, async_inference, async_envs, prev_agent_outputs,
          prime_left, caller, outputs, num_steps, step, output, gamestates,
          sample_outputs, is_resetting, initial_states, delayed_actions,
          trajectories, pushed, env_pops, peek_log, prev_overlap, players,
          live, failed_op, failures>>

\* The learner side: nothing of it exists while only a RolloutWorker runs.
learner_side == <<policy, manager, evaluator>>
Absent == <<>>

vars == <<worker_vars, learner_side>>

\* ----- helpers ----------------------------------------------------------
SetMin(S) == CHOOSE x \in S : \A y \in S : x <= y

PortsOf == DOMAIN agents

EmptyLists == [p \in PortsOf |-> <<>>]

\* A sample output computed from frame number t (Dummy for the dummy output).
SampleOutputs(t) == [controller_state |-> t, logits |-> t]

\* embed_controller.decode(action.controller_state)
decode(controller_state) == [controller |-> controller_state]

\* ----- delayed agent (eval_lib) -----------------------------------------
\* build_delayed_agent: the output queue starts with `delay` dummy outputs.
build_delayed_agent(delay, batch_steps) ==
  [delay |-> delay,
   batch_steps |-> batch_steps,
   dummy_sample_outputs |-> SampleOutputs(Dummy),
   state_queue |-> <<>>,
   output_queue |-> [i \in 1..delay |-> SampleOutputs(Dummy)],
   hidden_state |-> 0]

\* The agent processes its first k queued states in order: one output per
\* state, the recurrent state advancing by one per processed state.
RECURSIVE AgentProcess(_, _)
AgentProcess(a, k) ==
  IF k = 0 THEN a
  ELSE AgentProcess(
         [a EXCEPT !.state_queue = Tail(@),
                   !.output_queue = Append(@, SampleOutputs(Head(a.state_queue).t)),
                   !.hidden_state = @ + 1],
         k - 1)

\* agent.push(game, needs_reset): without asynchronous inference a full batch
\* of batch_steps states is processed inside the call.
AgentPush(a, frame) ==
  LET q == [a EXCEPT !.state_queue = Append(@, frame)]
  IN IF ~async_inference /\ Len(q.state_queue) = q.batch_steps
       THEN AgentProcess(q, q.batch_steps)
       ELSE q

\* agent.pop() returns only when an output is ready.
AgentCanPop(a) == a.output_queue # <<>>
AgentPopped(a) == [a EXCEPT !.output_queue = Tail(@)]

\* agent.peek_n(n) returns only when n outputs are ready; it removes nothing.
AgentCanPeekN(a, n) == Len(a.output_queue) >= n
peek_n(a, n) == SubSeq(a.output_queue, 1, n)

\* ----- batched environment (envs) ----------------------------------------
Frame(t, r) == [t |-> t, needs_reset |-> r]

\* The environment starts with its initial state buffered.  An episode ends
\* every episode_len frames (never when episode_len = 0).
build_env(n, episode_len) ==
  [num_steps |-> n,
   episode_len |-> episode_len,
   action_queue |-> <<>>,
   output_queue |-> <<Frame(0, FALSE)>>,
   frame |-> 1]

\* The reset flag of frame t: set on the frame at which an episode has ended.
needs_reset(e, t) == e.episode_len > 0 /\ t % e.episode_len = 0

\* The environment applies its first k queued action sets in order, each
\* producing the next frame.
RECURSIVE EnvProcess(_, _)
EnvProcess(e, k) ==
  IF k = 0 THEN e
  ELSE EnvProcess(
         [e EXCEPT !.action_queue = Tail(@),
                   !.output_queue = Append(@, Frame(e.frame, needs_reset(e, e.frame))),
                   !.frame = @ + 1],
         k - 1)

\* env.push(actions): without asynchronous environments a full batch of
\* num_steps action sets is applied inside the call.
EnvPush(e, actions) ==
  LET q == [e EXCEPT !.action_queue = Append(@, actions)]
  IN IF ~async_envs /\ Len(q.action_queue) = q.num_steps
       THEN EnvProcess(q, q.num_steps)
       ELSE q

\* env.pop() and env.peek() return only when a frame is buffered.
EnvCanPop(e) == e.output_queue # <<>>
EnvPopped(e) == [e EXCEPT !.output_queue = Tail(@)]
\* env.peek(): the frame the next pop() will return, not removed.
peek(e) == Head(e.output_queue)

\* ----- RolloutWorker ----------------------------------------------------
\* Smallest delay among the agents of the worker under construction.
MinDelayOf == SetMin({agents[p].delay : p \in PortsOf})

\* self.min_delay
min_delay == SetMin({agents[p].delay : p \in PortsOf})

\* Variant: the test lets one more buffered item through.
BufferTooLargeOffByOne(a) ==
  LET slack == 1 + a.delay
      max_agent_buffer == a.batch_steps - 1
      max_env_buffer == env.num_steps - 1
  IN max_agent_buffer + max_env_buffer > slack + 1

\* The buffer-size test of the constructor, for one agent.
BufferTooLarge(a) ==
  LET slack == 1 + a.delay
      max_agent_buffer == a.batch_steps - 1
      max_env_buffer == env.num_steps - 1
  IN max_agent_buffer + max_env_buffer > slack

\* State after the constructor has built the agents; env holds the
\* environment it is about to build (live.env tells whether it exists).
Init ==
  /\ pc = "new"
  /\ \E PS \in PortSets :
       agents \in [PS -> {build_delayed_agent(d, b) :
                            d \in 0..MaxDelay, b \in 1..MaxBatchSteps}]
  /\ \E n \in 1..MaxEnvSteps, l \in 0..MaxEpisodeLen : env = build_env(n, l)
  /\ async_inference \in BOOLEAN
  /\ async_envs \in BOOLEAN
  /\ prev_agent_outputs = <<>>
  /\ players \in PlayerSets
  /\ live = [agents |-> PortsOf, env |-> FALSE]
  /\ failed_op = "none"
  /\ failures = 0
  /\ policy = Absent
  /\ manager = Absent
  /\ evaluator = Absent
  /\ prime_left = 0
  /\ caller = "prime"
  /\ outputs = <<>>
  /\ num_steps = 0
  /\ step = 0
  /\ output = <<>>
  /\ gamestates = EmptyLists
  /\ sample_outputs = EmptyLists
  /\ is_resetting = <<>>
  /\ initial_states = <<>>
  /\ delayed_actions = <<>>
  /\ trajectories = <<>>
  /\ pushed = <<>>
  /\ env_pops = 0
  /\ peek_log = EmptyLists
  /\ prev_overlap = EmptyLists

\* Constructor, after the agents: update_character looks every agent port up
\* in dolphin_kwargs['players']; then the environment and the deque holding
\* the agents' dummy outputs are built.
BuildEnv ==
  /\ pc = "new"
  /\ IF PortsOf \subseteq players
       THEN /\ pc' = "init"
            /\ live' = [live EXCEPT !.env = TRUE]
            /\ prev_agent_outputs' =
                 <<[p \in PortsOf |-> agents[p].dummy_sample_outputs]>>
       ELSE /\ pc' = "KeyError"
            /\ UNCHANGED <<live, prev_agent_outputs>>
  /\ UNCHANGED <<agents, env, async_inference, async_envs, prime_left, caller,
                 outputs, num_steps, step, output, gamestates, sample_outputs,
                 is_resetting, initial_states, delayed_actions, trajectories,
                 pushed, env_pops, peek_log, prev_overlap, players, failed_op, failures>>
  /\ UNCHANGED learner_side

\* Variant: one priming round too few.
PrimeRoundsShort == IF min_delay > 0 THEN min_delay - 1 ELSE 0

\* Number of iterations of the priming loop, range(self.min_delay).
PrimeRounds == min_delay

\* Constructor, second half: the buffer-size check, then the start of priming.
CheckBufferSizes ==
  /\ pc = "init"
  /\ IF \E p \in PortsOf : BufferTooLarge(agents[p])
       THEN /\ pc' = "ValueError"
            /\ UNCHANGED prime_left
       ELSE /\ prime_left' = PrimeRounds
            /\ pc' = IF PrimeRounds = 0 THEN "idle" ELSE "agent_pop"
  /\ caller' = "prime"
  /\ UNCHANGED <<agents, env, async_inference, async_envs, prev_agent_outputs,
                 outputs, num_steps, step, output, gamestates, sample_outputs,
                 is_resetting, initial_states, delayed_actions, trajectories,
                 pushed, env_pops, peek_log, prev_overlap,
                 players, live, failed_op, failures>>
  /\ UNCHANGED learner_side

\* _push_actions, first loop: outputs[port] = agent.pop(), in port order.
NextPopPort == SetMin(PortsOf \ DOMAIN outputs)

PushActionsPop ==
  /\ pc = "agent_pop"
  /\ LET p == NextPopPort
     IN /\ AgentCanPop(agents[p])
        /\ outputs' = [q \in DOMAIN outputs \cup {p} |->
                         IF q = p THEN Head(agents[p].output_queue) ELSE outputs[q]]
        /\ agents' = [agents EXCEPT ![p] = AgentPopped(@)]
        /\ pc' = IF DOMAIN outputs \cup {p} = PortsOf THEN "env_push" ELSE "agent_pop"
  /\ UNCHANGED <<env, async_inference, async_envs, prev_agent_outputs, prime_left,
                 caller, num_steps, step, output, gamestates, sample_outputs,
                 is_resetting, initial_states, delayed_actions, trajectories,
                 pushed, env_pops, peek_log, prev_overlap,
                 players, live, failed_op, failures>>
  /\ UNCHANGED learner_side

\* Variant: the newest deque entry is decoded before the new outputs have been
\* appended to the deque.
decoded_stale(outs) ==
  LET last == IF prev_agent_outputs = <<>> THEN outs
              ELSE prev_agent_outputs[Len(prev_agent_outputs)]
  IN [p \in DOMAIN outs |-> decode(last[p].controller_state)]

\* decoded_actions of _push_actions.
decoded_actions(outs) ==
  [p \in DOMAIN outs |-> decode(outs[p].controller_state)]

\* _push_actions, rest: append to the deque, decode, env.push; then back to
\* the loop that called it.
PushActionsPush ==
  /\ pc = "env_push"
  /\ prev_agent_outputs' = Append(prev_agent_outputs, outputs)
  /\ env' = EnvPush(env, decoded_actions(outputs))
  /\ pushed' = Append(pushed, decoded_actions(outputs))
  /\ outputs' = <<>>
  /\ IF caller = "prime"
       THEN /\ prime_left' = prime_left - 1
            /\ pc' = IF prime_left = 1 THEN "idle" ELSE "agent_pop"
            /\ UNCHANGED step
       ELSE /\ step' = step + 1
            /\ pc' = IF step + 1 = num_steps THEN "record_last" ELSE "env_pop"
            /\ UNCHANGED prime_left
  /\ UNCHANGED <<agents, async_inference, async_envs, caller, num_steps, output,
                 gamestates, sample_outputs, is_resetting, initial_states,
                 delayed_actions, trajectories, env_pops, peek_log, prev_overlap,
                 players, live, failed_op, failures>>
  /\ UNCHANGED learner_side

\* record_state(env_output, prev_agent_outputs)
RecordedStates(env_output) == [p \in PortsOf |-> Append(gamestates[p], env_output)]
RecordedOutputs(prev) == [p \in PortsOf |-> Append(sample_outputs[p], prev[p])]

\* Variant: the reset flag is appended inside the per-port loop.
RECURSIVE AppendTimes(_, _, _)
AppendTimes(seq, x, k) == IF k = 0 THEN seq ELSE AppendTimes(Append(seq, x), x, k - 1)
RecordedResetsPerPort(env_output) ==
  AppendTimes(is_resetting, env_output.needs_reset, Cardinality(PortsOf))

RecordedResets(env_output) == Append(is_resetting, env_output.needs_reset)

\* Variant: the newest deque entry is taken (pop instead of popleft).
NewestOutputs == prev_agent_outputs[Len(prev_agent_outputs)]

\* Value of self._prev_agent_outputs.popleft().
PoppedOutputs == Head(prev_agent_outputs)

\* Variant: the oldest entry is read but left in the deque.
DequeNotPopped == prev_agent_outputs

\* The deque after popleft().
DequeAfterPopleft == Tail(prev_agent_outputs)

\* Variant: the last frame is popped from the environment.
EnvAfterPop == EnvPopped(env)

\* The environment after self._env.peek().
EnvAfterPeek == env

\* Variant: the snapshot is the agents' state at construction.
HiddenStatesAtStart == [p \in PortsOf |-> 0]

\* {port: agent._agent.hidden_state for port, agent in self._agents.items()}
HiddenStates == [p \in PortsOf |-> agents[p].hidden_state]

\* rollout(num_steps): entry; the local buffers and the initial_states snapshot.
RolloutEntry(n) ==
  /\ env_pops + n <= MaxFrames
  /\ num_steps' = n
  /\ step' = 0
  /\ gamestates' = EmptyLists
  /\ sample_outputs' = EmptyLists
  /\ is_resetting' = <<>>
  /\ initial_states' = HiddenStates
  /\ delayed_actions' = <<>>
  /\ trajectories' = <<>>
  /\ peek_log' = EmptyLists
  /\ prev_overlap' =
       IF pc # "idle" THEN EmptyLists
       ELSE IF trajectories = <<>> THEN prev_overlap
       ELSE [p \in PortsOf |->
               <<[state |-> trajectories[p].states[Len(trajectories[p].states)],
                  is_resetting |-> trajectories[p].is_resetting[Len(trajectories[p].is_resetting)],
                  delayed_actions |-> trajectories[p].delayed_actions]>>]
  /\ caller' = "rollout"
  /\ pc' = IF n = 0 THEN "record_last" ELSE "env_pop"
  /\ failed_op' = "none"
  /\ UNCHANGED <<agents, env, async_inference, async_envs, prev_agent_outputs,
                 prime_left, outputs, output, pushed, env_pops, players, live,
                 failures>>
  /\ UNCHANGED learner_side

\* A call of rollout() on a worker whose previous call returned (or that has
\* just been constructed).
Rollout(n) ==
  /\ pc = "idle"
  /\ RolloutEntry(n)

\* Loop body, first half: env.pop() and record_state with the dequeued entry.
\* popleft() raises IndexError on an empty deque; record_state raises KeyError
\* for an environment port that has no agent.
StepEnvPop ==
  /\ pc = "env_pop"
  /\ EnvCanPop(env)
  /\ output' = Head(env.output_queue)
  /\ env' = EnvPopped(env)
  /\ env_pops' = env_pops + 1
  /\ IF prev_agent_outputs = <<>>
       THEN /\ pc' = "IndexError"
            /\ UNCHANGED <<gamestates, sample_outputs, is_resetting,
                           prev_agent_outputs>>
       ELSE IF ~(players \subseteq PortsOf)
         THEN /\ pc' = "KeyError"
              /\ prev_agent_outputs' = DequeAfterPopleft
              /\ UNCHANGED <<gamestates, sample_outputs, is_resetting>>
         ELSE /\ gamestates' = RecordedStates(Head(env.output_queue))
              /\ sample_outputs' = RecordedOutputs(PoppedOutputs)
              /\ is_resetting' = RecordedResets(Head(env.output_queue))
              /\ prev_agent_outputs' = DequeAfterPopleft
              /\ pc' = "agent_push"
  /\ UNCHANGED <<agents, async_inference, async_envs, prime_left, caller, outputs,
                 num_steps, step, initial_states, delayed_actions, trajectories,
                 pushed, peek_log, prev_overlap,
                 players, live, failed_op, failures>>
  /\ UNCHANGED learner_side

\* Variant: the loop over the agents stops after the first agent.
PushedFirstAgent ==
  [p \in PortsOf |->
     IF p = SetMin(PortsOf) THEN AgentPush(agents[p], output) ELSE agents[p]]

\* The agents after the loop that pushes the popped state to each of them.
PushedAgents == [p \in PortsOf |-> AgentPush(agents[p], output)]

\* Loop body, second half: push the popped state to every agent.
StepAgentPush ==
  /\ pc = "agent_push"
  /\ agents' = PushedAgents
  /\ pc' = "agent_pop"
  /\ UNCHANGED <<env, async_inference, async_envs, prev_agent_outputs, prime_left,
                 caller, outputs, num_steps, step, output, gamestates,
                 sample_outputs, is_resetting, initial_states, delayed_actions,
                 trajectories, pushed, env_pops, peek_log, prev_overlap,
                 players, live, failed_op, failures>>
  /\ UNCHANGED learner_side

\* Variant: the newest deque entry is read.
LastOutputs == prev_agent_outputs[Len(prev_agent_outputs)]

\* self._prev_agent_outputs[0]
OldestOutputs == prev_agent_outputs[1]

\* Variant: the assertion is not made.
DequeUnchecked == TRUE

\* assert len(self._prev_agent_outputs) == 1 + self.min_delay
DequeInSync == Len(prev_agent_outputs) = 1 + min_delay

\* After the loop: record the peeked frame with the oldest deque entry, then
\* the assertion on the length of the deque.
RecordLast ==
  /\ pc = "record_last"
  /\ EnvCanPop(env)
  /\ env' = EnvAfterPeek
  /\ IF prev_agent_outputs = <<>>
       THEN /\ pc' = "IndexError"
            /\ UNCHANGED <<gamestates, sample_outputs, is_resetting>>
       ELSE IF ~(players \subseteq PortsOf)
         THEN /\ pc' = "KeyError"
              /\ UNCHANGED <<gamestates, sample_outputs, is_resetting>>
         ELSE /\ gamestates' = RecordedStates(peek(env))
              /\ sample_outputs' = RecordedOutputs(OldestOutputs)
              /\ is_resetting' = RecordedResets(peek(env))
              /\ pc' = IF DequeInSync THEN "peek_n" ELSE "AssertionError"
  /\ UNCHANGED <<agents, async_inference, async_envs, prev_agent_outputs,
                 prime_left, caller, outputs, num_steps, step, output,
                 initial_states, delayed_actions, trajectories, pushed, env_pops,
                 peek_log, prev_overlap,
                 players, live, failed_op, failures>>
  /\ UNCHANGED learner_side

\* compute_rewards(states): one reward per pair of consecutive states.
compute_rewards(states) ==
  [i \in 1..(Len(states) - 1) |-> <<states[i].t, states[i + 1].t>>]

Trajectory(p, delayed) ==
  [states |-> gamestates[p],
   actions |-> sample_outputs[p],
   rewards |-> compute_rewards(gamestates[p]),
   is_resetting |-> is_resetting,
   initial_state |-> initial_states[p],
   delayed_actions |-> delayed[p]]

\* Variant: the drain is one entry short.
num_left_short(a) ==
  IF a.delay - min_delay > 0 THEN a.delay - min_delay - 1 ELSE 0

\* num_left = agent.delay - self.min_delay
num_left(a) == a.delay - min_delay

\* Variant: the oldest deque entry is not skipped.
remaining_all == prev_agent_outputs

\* remaining_actions = list(self._prev_agent_outputs)[1:]
remaining_actions == Tail(prev_agent_outputs)

\* The delayed-actions loop, one agent per step in port order; after the last
\* agent the trajectories are assembled and rollout() returns.
NextPeekPort == SetMin(PortsOf \ DOMAIN delayed_actions)

RecordDelayed ==
  /\ pc = "peek_n"
  /\ LET p == NextPeekPort
         fromDeque == [i \in 1..Len(remaining_actions) |-> remaining_actions[i][p]]
         delayed == [q \in DOMAIN delayed_actions \cup {p} |->
                       IF q = p THEN fromDeque \o peek_n(agents[p], num_left(agents[p]))
                       ELSE delayed_actions[q]]
     IN /\ AgentCanPeekN(agents[p], num_left(agents[p]))
        /\ peek_log' = [peek_log EXCEPT ![p] =
                          Append(@, [n |-> num_left(agents[p]),
                                     result |-> peek_n(agents[p], num_left(agents[p]))])]
        /\ IF async_inference /\ agents[p].state_queue # <<>>
             THEN /\ pc' = "AssertionError"
                  /\ delayed_actions' = delayed
                  /\ UNCHANGED <<trajectories, gamestates, sample_outputs, is_resetting>>
             ELSE IF DOMAIN delayed = PortsOf
               THEN /\ pc' = "idle"
                    /\ trajectories' = [q \in PortsOf |-> Trajectory(q, delayed)]
                    /\ delayed_actions' = <<>>
                    /\ gamestates' = EmptyLists
                    /\ sample_outputs' = EmptyLists
                    /\ is_resetting' = <<>>
               ELSE /\ pc' = "peek_n"
                    /\ delayed_actions' = delayed
                    /\ UNCHANGED <<trajectories, gamestates, sample_outputs, is_resetting>>
  /\ UNCHANGED <<agents, env, async_inference, async_envs, prev_agent_outputs,
                 prime_left, caller, outputs, num_steps, step, output,
                 initial_states, pushed, env_pops, prev_overlap,
                 players, live, failed_op, failures>>
  /\ UNCHANGED learner_side

\* Asynchronous inference: the agent's own thread processes a full batch.
AgentWork(p) ==
  /\ async_inference
  /\ p \in PortsOf
  /\ Len(agents[p].state_queue) >= agents[p].batch_steps
  /\ agents' = [agents EXCEPT ![p] = AgentProcess(@, @.batch_steps)]
  /\ UNCHANGED <<pc, env, async_inference, async_envs, prev_agent_outputs,
                 prime_left, caller, outputs, num_steps, step, output, gamestates,
                 sample_outputs, is_resetting, initial_states, delayed_actions,
                 trajectories, pushed, env_pops, peek_log, prev_overlap,
                 players, live, failed_op, failures>>
  /\ UNCHANGED learner_side

\* Asynchronous environment: its own process applies a full batch.
EnvWork ==
  /\ async_envs
  /\ Len(env.action_queue) >= env.num_steps
  /\ env' = EnvProcess(env, env.num_steps)
  /\ UNCHANGED <<pc, agents, async_inference, async_envs, prev_agent_outputs,
                 prime_left, caller, outputs, num_steps, step, output, gamestates,
                 sample_outputs, is_resetting, initial_states, delayed_actions,
                 trajectories, pushed, env_pops, peek_log, prev_overlap,
                 players, live, failed_op, failures>>
  /\ UNCHANGED learner_side

Next ==
  \/ BuildEnv
  \/ CheckBufferSizes
  \/ PushActionsPop
  \/ PushActionsPush
  \/ \E n \in 0..MaxNumSteps : Rollout(n)
  \/ StepEnvPop
  \/ StepAgentPush
  \/ RecordLast
  \/ RecordDelayed
  \/ \E p \in Ports : AgentWork(p)
  \/ EnvWork

Spec == Init /\ [][Next]_vars

\* ----- failures and shutdown ----------------------------------------------
\* Variant: the failure is swallowed and the operation tried again.
RetriedPc == pc

\* rollout() and _push_actions catch nothing: an exception raised by an
\* operation leaves rollout().
RaisedPc == "Raised"

\* An exception raised inside rollout() reaches the caller: the buffers
\* local to rollout() and _push_actions are gone.
Unwound(op) ==
  /\ caller = "rollout"
  /\ failures < MaxFailures
  /\ failures' = failures + 1
  /\ pc' = RaisedPc
  /\ failed_op' = op
  /\ outputs' = <<>>
  /\ gamestates' = EmptyLists
  /\ sample_outputs' = EmptyLists
  /\ is_resetting' = <<>>
  /\ UNCHANGED <<async_inference, async_envs, prime_left, caller,
                 num_steps, step, output, initial_states, delayed_actions,
                 trajectories, pushed, env_pops, peek_log, prev_overlap, players,
                 live>>
  /\ UNCHANGED learner_side

\* self._env.pop() raises.
RaiseEnvPop ==
  /\ pc = "env_pop"
  /\ Unwound("env.pop")
  /\ UNCHANGED <<agents, env, prev_agent_outputs>>

\* agent.push raises for port p: the agents before p have been pushed to.
RaiseAgentPush ==
  /\ pc = "agent_push"
  /\ \E p \in PortsOf :
       agents' = [q \in PortsOf |->
                    IF q < p THEN AgentPush(agents[q], output) ELSE agents[q]]
  /\ Unwound("agent.push")
  /\ UNCHANGED <<env, prev_agent_outputs>>

\* agent.pop() raises in _push_actions: the outputs popped so far are lost.
RaiseAgentPop ==
  /\ pc = "agent_pop"
  /\ Unwound("agent.pop")
  /\ UNCHANGED <<agents, env, prev_agent_outputs>>

\* self._env.push raises in _push_actions, after the append to the deque.
RaiseEnvPush ==
  /\ pc = "env_push"
  /\ prev_agent_outputs' = Append(prev_agent_outputs, outputs)
  /\ Unwound("env.push")
  /\ UNCHANGED <<agents, env>>

\* Control positions at which an exception has left rollout().
FailedPcs == {"Raised", "AssertionError", "IndexError"}

\* The caller calls rollout() again on a worker whose last call raised.
RolloutAgain(n) ==
  /\ pc \in FailedPcs
  /\ RolloutEntry(n)

\* stop(), first loop: agent.stop() for each agent in port order.
StopAgent ==
  /\ pc \in {"idle", "stop"}
  /\ live.agents # {}
  /\ live' = [live EXCEPT !.agents = @ \ {SetMin(@)}]
  /\ pc' = "stop"
  /\ UNCHANGED <<agents, env, async_inference, async_envs, prev_agent_outputs,
                 prime_left, caller, outputs, num_steps, step, output, gamestates,
                 sample_outputs, is_resetting, initial_states, delayed_actions,
                 trajectories, pushed, env_pops, peek_log, prev_overlap, players,
                 failed_op, failures>>
  /\ UNCHANGED learner_side

\* agent.stop() raises: the exception leaves stop().
StopAgentRaises ==
  /\ pc \in {"idle", "stop"}
  /\ live.agents # {}
  /\ pc' = "StopRaised"
  /\ UNCHANGED <<agents, env, async_inference, async_envs, prev_agent_outputs,
                 prime_left, caller, outputs, num_steps, step, output, gamestates,
                 sample_outputs, is_resetting, initial_states, delayed_actions,
                 trajectories, pushed, env_pops, peek_log, prev_overlap, players,
                 live, failed_op, failures>>
  /\ UNCHANGED learner_side

\* stop(), last statement: self._env.stop().
StopEnv ==
  /\ pc = "stop"
  /\ live.agents = {}
  /\ live' = [live EXCEPT !.env = FALSE]
  /\ pc' = "stopped"
  /\ UNCHANGED <<agents, env, async_inference, async_envs, prev_agent_outputs,
                 prime_left, caller, outputs, num_steps, step, output, gamestates,
                 sample_outputs, is_resetting, initial_states, delayed_actions,
                 trajectories, pushed, env_pops, peek_log, prev_overlap, players,
                 failed_op, failures>>
  /\ UNCHANGED learner_side

\* Workers with unbatched agents and environment, matching ports, and one
\* agent when inference is asynchronous.
InitFail ==
  /\ Init
  /\ \A p \in PortsOf : agents[p].batch_steps = 1
  /\ env.num_steps = 1
  /\ env.episode_len = 0
  /\ async_inference => Cardinality(PortsOf) = 1
  /\ players = PortsOf

NextFail ==
  \/ Next
  \/ RaiseEnvPop
  \/ RaiseAgentPush
  \/ RaiseAgentPop
  \/ RaiseEnvPush
  \/ \E n \in 0..MaxNumSteps : RolloutAgain(n)

\* The worker with operations that may raise and a caller that may call
\* rollout() again after a failure.
SpecFail == InitFail /\ [][NextFail]_vars

NextStop ==
  \/ Next
  \/ StopAgent
  \/ StopAgentRaises
  \/ StopEnv

\* The worker with stop(), called between rollouts, whose agent.stop() may
\* raise.
SpecStop == InitFail /\ [][NextStop]_vars

\* ----- properties ---------------------------------------------------------
\* A rollout() call has returned and its result is at hand.
Returned == pc = "idle" /\ trajectories # <<>>

\* C1 as amended: for every agent with delay D and every returned rollout of
\* length T >= D, the action recorded against the state of frame i is the
\* output the agent computed from the state of frame i - D - 1 when
\* i >= D + 1, and the agent's dummy output when i <= D.
C1_DelayCorrectness ==
  Returned =>
    \A p \in PortsOf :
      LET D == agents[p].delay
          tr == trajectories[p]
      IN num_steps >= D =>
           \A j \in 1..Len(tr.states) :
             LET i == tr.states[j].t
             IN tr.actions[j] =
                  SampleOutputs(IF i >= D + 1 THEN i - D - 1 ELSE Dummy)

\* C1 as stated: the action recorded against the state of frame i is the
\* output the agent computed from the state of frame i - D.
C1_Original ==
  Returned =>
    \A p \in PortsOf :
      LET D == agents[p].delay
          tr == trajectories[p]
      IN num_steps >= D =>
           \A j \in 1..Len(tr.states) :
             LET i == tr.states[j].t
             IN i >= D => tr.actions[j] = SampleOutputs(i - D)

\* Two agents with different delays, a rollout at least as long as the larger
\* delay, and a recorded frame late enough to carry a computed action.
C1_Witness ==
  /\ Returned
  /\ PortsOf = {1, 2}
  /\ agents[1].delay # agents[2].delay
  /\ \A p \in PortsOf : num_steps >= agents[p].delay
  /\ \E p \in PortsOf : \E j \in 1..Len(trajectories[p].states) :
       /\ agents[p].delay >= 1
       /\ trajectories[p].states[j].t >= agents[p].delay + 1
       /\ trajectories[p].actions[j].controller_state >= 0

\* C2: the action set pushed to advance frame t holds, for every agent with
\* delay D, the action computed from frame t - D when t >= D and a dummy
\* action when t < D.
C2_AppliedFrameDelay ==
  \A k \in 1..Len(pushed) :
    \A p \in PortsOf :
      LET t == k - 1
          D == agents[p].delay
      IN pushed[k][p] = decode(IF t >= D THEN t - D ELSE Dummy)

\* Two agents with different delays; both a dummy and a computed action of
\* the slower agent have been pushed.
C2_Witness ==
  /\ PortsOf = {1, 2}
  /\ agents[1].delay < agents[2].delay
  /\ agents[1].delay >= 1
  /\ Len(pushed) > agents[2].delay + 1
  /\ pushed[1][2] = decode(Dummy)
  /\ pushed[Len(pushed)][2].controller >= 1

\* The worker is at a step boundary: constructed, or between loop iterations.
AtStepBoundary == pc \in {"idle", "env_pop", "record_last", "peek_n"}
\* The worker is inside a loop iteration, after the dequeue and before the append.
InsideIteration ==
  pc = "agent_push" \/ (caller = "rollout" /\ pc \in {"agent_pop", "env_push"})

\* C3: the deque holds 1 + min_delay entries at every step boundary, min_delay
\* entries inside an iteration, and never more than 1 + min_delay.
C3_DequeLength ==
  /\ Len(prev_agent_outputs) <= 1 + MinDelayOf
  /\ AtStepBoundary => Len(prev_agent_outputs) = 1 + MinDelayOf
  /\ InsideIteration => Len(prev_agent_outputs) = MinDelayOf

\* A second rollout is under way with a positive min_delay.
C3_Witness ==
  /\ MinDelayOf >= 2
  /\ pc = "env_pop"
  /\ step >= 1
  /\ prev_overlap[1] # <<>>
  /\ Len(prev_agent_outputs) = 1 + MinDelayOf

\* The buffer-size inequality of the data model, for the agent at port p.
BufferInvariantBroken(p) ==
  (agents[p].batch_steps - 1) + (env.num_steps - 1) > 1 + agents[p].delay

\* C4: construction raises ValueError exactly when some agent breaks the
\* buffer-size inequality, and then nothing was popped from an agent or
\* pushed to the environment.
C4_BufferSizeRejection ==
  /\ pc = "ValueError" =>
       /\ \E p \in PortsOf : BufferInvariantBroken(p)
       /\ pushed = <<>>
       /\ env_pops = 0
       /\ env = build_env(env.num_steps, env.episode_len)
       /\ \A p \in PortsOf :
            agents[p] = build_delayed_agent(agents[p].delay, agents[p].batch_steps)
       /\ Len(prev_agent_outputs) = 1
  /\ pc \notin {"new", "KeyError", "init", "ValueError"} =>
       \A p \in PortsOf : ~BufferInvariantBroken(p)

\* Construction failed although the first agent alone satisfies the inequality.
C4_Witness ==
  /\ pc = "ValueError"
  /\ PortsOf = {1, 2}
  /\ ~BufferInvariantBroken(1)
  /\ BufferInvariantBroken(2)

\* The worker waits in a pop or peek whose result is neither ready nor about
\* to be produced by the agent's or the environment's own thread.
Stalled ==
  \/ /\ pc = "agent_pop"
     /\ LET a == agents[NextPopPort]
        IN /\ ~AgentCanPop(a)
           /\ ~(async_inference /\ Len(a.state_queue) >= a.batch_steps)
  \/ /\ pc \in {"env_pop", "record_last"}
     /\ ~EnvCanPop(env)
     /\ ~(async_envs /\ Len(env.action_queue) >= env.num_steps)
  \/ /\ pc = "peek_n"
     /\ LET a == agents[NextPeekPort]
        IN /\ ~AgentCanPeekN(a, a.delay - MinDelayOf)
           /\ ~(async_inference /\ Len(a.state_queue) >= a.batch_steps)

\* C5: once the buffer-size check has passed, no pop of the worker waits
\* forever.
C5_NoStall == ~Stalled

\* C6: the first frame a rollout records is the last frame the previous
\* rollout recorded, state and reset flag, for every agent.
C6_Seamless ==
  \A p \in PortsOf :
    (prev_overlap[p] # <<>> /\ gamestates[p] # <<>>) =>
       /\ gamestates[p][1] = prev_overlap[p][1].state
       /\ is_resetting[1] = prev_overlap[p][1].is_resetting

\* A second rollout has recorded frames while the environment holds several
\* buffered frames.
C6_Witness ==
  /\ MinDelayOf >= 1
  /\ prev_overlap[1] # <<>>
  /\ gamestates[1] # <<>>
  /\ gamestates[1][1].t >= 1
  /\ gamestates[1][1].needs_reset
  /\ Len(env.output_queue) >= 2

\* C7: a returned trajectory has num_steps + 1 states, actions and reset
\* flags and num_steps rewards.
C7_TrajectoryLengths ==
  Returned =>
    \A p \in PortsOf :
      /\ Len(trajectories[p].states) = num_steps + 1
      /\ Len(trajectories[p].actions) = num_steps + 1
      /\ Len(trajectories[p].is_resetting) = num_steps + 1
      /\ Len(trajectories[p].rewards) = num_steps

\* Delay 0, rollout of 3 steps: 4 states, 4 actions, 3 rewards; also reached
\* with two agents.
C7_Witness ==
  /\ Returned
  /\ num_steps = 3
  /\ PortsOf = {1, 2}
  /\ agents[1].delay = 0
  /\ Len(trajectories[1].states) = 4
  /\ Len(trajectories[1].rewards) = 3

\* Number of agent.pop() calls that have returned for port p while no state
\* has been pushed to the agent.
PrimingPops(p) == agents[p].delay - Len(agents[p].output_queue)

\* C8: until the first rollout() call the worker pushes no state to any agent
\* and pops no frame; it pops one action per agent and pushes one action set
\* per priming round, and it is ready for rollout() after exactly min_delay
\* rounds; every rollout() starts after them.
C8_Priming ==
  /\ caller = "prime" =>
       /\ env_pops = 0
       /\ Len(pushed) <= MinDelayOf
       /\ \A p \in PortsOf :
            /\ agents[p].state_queue = <<>>
            /\ agents[p].hidden_state = 0
            /\ PrimingPops(p) = Len(pushed) + (IF p \in DOMAIN outputs THEN 1 ELSE 0)
  /\ (caller = "prime" /\ pc = "idle") => Len(pushed) = MinDelayOf
  /\ caller = "rollout" => Len(pushed) >= MinDelayOf
  /\ (caller = "rollout" /\ env_pops = 0) => Len(pushed) = MinDelayOf

\* A single agent with delay 2 has been primed with 2 rounds.
C8_Witness ==
  /\ caller = "prime"
  /\ pc = "idle"
  /\ PortsOf = {1}
  /\ agents[1].delay = 2
  /\ Len(pushed) = 2

\* C9: in every rollout() call peek_n is called once per agent with
\* n = agent.delay - min_delay, and from then on the agent has no pushed
\* state left unprocessed.
C9_Drain ==
  /\ \A p \in PortsOf :
       /\ Len(peek_log[p]) <= 1
       /\ (pc = "peek_n" /\ p \notin DOMAIN delayed_actions) => peek_log[p] = <<>>
       /\ ((pc = "peek_n" /\ p \in DOMAIN delayed_actions) \/ Returned) =>
            /\ Len(peek_log[p]) = 1
            /\ peek_log[p][1].n = agents[p].delay - MinDelayOf
            /\ Len(peek_log[p][1].result) = peek_log[p][1].n
            /\ agents[p].state_queue = <<>>
  /\ pc # "AssertionError"

\* Delays 1 and 3: peek_n(0) and peek_n(2) after a rollout that pushed states.
C9_Witness ==
  /\ Returned
  /\ num_steps >= 2
  /\ PortsOf = {1, 2}
  /\ agents[1].delay = 1
  /\ agents[2].delay = 3
  /\ peek_log[1][1].n = 0
  /\ peek_log[2][1].n = 2
  /\ agents[2].hidden_state >= 2

\* The scenario of C10: one agent with delay 2, first rollout of 5 steps.
C10_Scenario ==
  /\ PortsOf = {1}
  /\ agents[1].delay = 2
  /\ num_steps = 5
  /\ env_pops = 5
  /\ Returned

\* C10 as amended: 2 priming rounds, a deque of 3 entries, and 2 delayed
\* actions that are the two newest deque entries; peek_n is called with
\* n = 0 and supplies none of them.
C10_DelayTwo ==
  /\ (PortsOf = {1} /\ agents[1].delay = 2 /\ caller = "prime" /\ pc = "idle") =>
       Len(pushed) = 2
  /\ C10_Scenario =>
       /\ Len(prev_agent_outputs) = 3
       /\ Len(trajectories[1].delayed_actions) = 2
       /\ trajectories[1].delayed_actions =
            <<prev_agent_outputs[2][1], prev_agent_outputs[3][1]>>
       /\ peek_log[1] = <<[n |-> 0, result |-> <<>>]>>

\* C10 as stated: the 2 delayed actions are the ones obtained from peek_n.
C10_Original ==
  C10_Scenario =>
    /\ Len(prev_agent_outputs) = 3
    /\ Len(trajectories[1].delayed_actions) = 2
    /\ trajectories[1].delayed_actions = peek_log[1][1].result

\* The scenario has run to the end of its rollout.
C10_Witness ==
  /\ C10_Scenario
  /\ Len(pushed) = 7
  /\ Len(trajectories[1].states) = 6

\* C11: when env.pop, env.push, agent.push or agent.pop raises during
\* rollout(), the failure leaves rollout(): from then until the caller's next
\* call the worker is at rest with no trajectories returned, and the step in
\* which the failure struck is left as it was (a failure between the dequeue
\* and the append leaves the deque short; nothing is retried or repaired).
C11_FailurePropagation ==
  failed_op # "none" =>
    /\ pc = "Raised"
    /\ trajectories = <<>>
    /\ failed_op \in {"agent.push", "agent.pop"} =>
         Len(prev_agent_outputs) < 1 + MinDelayOf

\* A push to the second of two agents has raised in the second iteration.
C11_Witness ==
  /\ pc = "Raised"
  /\ failed_op = "agent.push"
  /\ step = 1
  /\ PortsOf = {1, 2}
  /\ agents[1].hidden_state + Len(agents[1].state_queue)
       > agents[2].hidden_state + Len(agents[2].state_queue)

\* The check on the deque has been passed, or rollout() has returned.
PastFinalChecks ==
  \/ pc = "peek_n"
  \/ pc = "idle" /\ caller = "rollout" /\ trajectories # <<>>

C13_NoPartialConstruction ==
  pc = "ValueError" => live.agents = {} /\ ~live.env

\* C14: a worker whose agent ports differ from the environment's ports fails
\* in its constructor, before priming and before any rollout step.
C14_IdentityMismatchRejected ==
  players # PortsOf =>
    /\ pc \in {"new", "init", "KeyError", "ValueError"}
    /\ caller = "prime"
    /\ pushed = <<>>

\* C15: when stop() has returned or raised, every agent and the environment
\* have been stopped.
C15_StopReleasesAll ==
  pc \in {"stopped", "StopRaised"} => live.agents = {} /\ ~live.env

\* The action recorded at position j of a pair of buffers is the action set
\* pushed to the environment to produce the state recorded there.
PairedWithPush(states, actions, p) ==
  \A j \in 1..Len(states) :
    LET k == states[j].t
    IN IF k = 0
         THEN actions[j] = agents[p].dummy_sample_outputs
         ELSE /\ k <= Len(pushed)
              /\ decode(actions[j].controller_state) = pushed[k][p]

\* C16: for every k >= 1 the state of frame k is recorded together with the
\* k-th action set pushed to the environment, and the state of frame 0 with
\* the agents' dummy outputs; in the buffers of a rollout in progress and in
\* the trajectories it returns.
C16_StateActionPairing ==
  \A p \in PortsOf :
    /\ Len(sample_outputs[p]) = Len(gamestates[p])
    /\ PairedWithPush(gamestates[p], sample_outputs[p], p)
    /\ trajectories # <<>> =>
         /\ Len(trajectories[p].actions) = Len(trajectories[p].states)
         /\ PairedWithPush(trajectories[p].states, trajectories[p].actions, p)

\* A second rollout has returned a trajectory that starts after frame 0 and
\* holds an action the agent computed.
C16_Witness ==
  /\ Returned
  /\ \E p \in PortsOf :
       /\ trajectories[p].states[1].t >= 1
       /\ Len(trajectories[p].states) >= 3
       /\ trajectories[p].actions[3].controller_state # Dummy

\* Number of states pushed to, and of actions popped from, the agent at port p.
AgentPushes(p) == agents[p].hidden_state + Len(agents[p].state_queue)
AgentPops(p) ==
  agents[p].delay + agents[p].hidden_state - Len(agents[p].output_queue)

\* C17: every iteration of the step loop performs, in this order, one
\* env.pop with one dequeue, one push of the popped state to every agent, one
\* pop from every agent, one append to the deque and one env.push: every
\* agent has been pushed the state before any agent is popped, and every
\* action popped from an agent goes into exactly one env.push.
C17_StepProtocol ==
  /\ caller = "rollout" /\ pc \in {"env_pop", "record_last", "peek_n", "idle"} =>
       /\ Len(pushed) = MinDelayOf + env_pops
       /\ outputs = <<>>
       /\ \A p \in PortsOf :
            AgentPushes(p) = env_pops /\ AgentPops(p) = Len(pushed)
  /\ caller = "rollout" /\ pc = "env_pop" =>
       \A p \in PortsOf : Len(gamestates[p]) = step
  /\ pc = "agent_push" =>
       /\ Len(pushed) = MinDelayOf + env_pops - 1
       /\ Len(prev_agent_outputs) = MinDelayOf
       /\ outputs = <<>>
       /\ \A p \in PortsOf :
            /\ Len(gamestates[p]) = step + 1
            /\ AgentPushes(p) = env_pops - 1
            /\ AgentPops(p) = Len(pushed)
  /\ caller = "rollout" /\ pc \in {"agent_pop", "env_push"} =>
       /\ Len(pushed) = MinDelayOf + env_pops - 1
       /\ Len(prev_agent_outputs) = MinDelayOf
       /\ pc = "env_push" <=> DOMAIN outputs = PortsOf
       /\ \A p \in PortsOf :
            /\ Len(gamestates[p]) = step + 1
            /\ AgentPushes(p) = env_pops
            /\ AgentPops(p) = Len(pushed) + (IF p \in DOMAIN outputs THEN 1 ELSE 0)
            /\ p \in DOMAIN outputs =>
                 outputs[p].controller_state =
                   (IF Len(pushed) >= agents[p].delay
                      THEN Len(pushed) - agents[p].delay ELSE Dummy)

\* In the second iteration of a rollout with two agents, the first agent has
\* been popped and the second has not.
C17_Witness ==
  /\ caller = "rollout"
  /\ pc = "agent_pop"
  /\ step = 1
  /\ PortsOf = {1, 2}
  /\ DOMAIN outputs = {1}
  /\ outputs[1].controller_state # Dummy

\* C18 as amended: at every step boundary the environment has received
\* exactly min_delay more action sets than states have been popped from it,
\* and every agent holds exactly agent.delay - min_delay actions not yet
\* popped, counting the dummy ones, the computed ones and the ones it has
\* still to compute from states already pushed to it.
C18_InFlight ==
  AtStepBoundary =>
    /\ Len(pushed) - env_pops = MinDelayOf
    /\ \A p \in PortsOf :
         Len(agents[p].output_queue) + Len(agents[p].state_queue)
           = agents[p].delay - MinDelayOf

\* C18 as stated: the actions an agent holds are all computed or dummy.
C18_Original ==
  AtStepBoundary =>
    /\ Len(pushed) - env_pops = MinDelayOf
    /\ \A p \in PortsOf :
         Len(agents[p].output_queue) = agents[p].delay - MinDelayOf

\* At a step boundary after two iterations, an agent slower than min_delay
\* holds a state it has not processed yet.
C18_Witness ==
  /\ AtStepBoundary
  /\ env_pops >= 2
  /\ \E p \in PortsOf :
       /\ agents[p].delay > MinDelayOf
       /\ agents[p].state_queue # <<>>
       /\ agents[p].output_queue # <<>>

\* C19: the delayed_actions of a returned rollout has exactly agent.delay
\* entries, the min_delay deque entries after the oldest followed by the
\* agent.delay - min_delay peeked ones; and when the next call has
\* num_steps >= agent.delay, entry j of the earlier call's delayed_actions is
\* entry j + 1 of the later call's actions.
C19_DelayedCarryOver ==
  Returned =>
    \A p \in PortsOf :
      LET D == agents[p].delay
          delayed == trajectories[p].delayed_actions
      IN /\ Len(delayed) = D
         /\ \A i \in 1..D :
              delayed[i] = IF i <= MinDelayOf
                             THEN prev_agent_outputs[i + 1][p]
                             ELSE agents[p].output_queue[i - MinDelayOf]
         /\ prev_overlap[p] # <<>> /\ num_steps >= D =>
              \A j \in 1..D :
                prev_overlap[p][1].delayed_actions[j] = trajectories[p].actions[j + 1]

\* A second rollout, at least as long as the delay of an agent slower than
\* min_delay, has returned, and the carried-over actions were computed ones.
C19_Witness ==
  /\ Returned
  /\ \E p \in PortsOf :
       /\ prev_overlap[p] # <<>>
       /\ agents[p].delay >= 2
       /\ agents[p].delay > MinDelayOf
       /\ MinDelayOf >= 1
       /\ num_steps >= agents[p].delay
       /\ prev_overlap[p][1].delayed_actions[1].controller_state # Dummy

\* C20: recording the overlap frame removes nothing, neither a buffered frame
\* of the environment nor an entry of the deque; and env.peek() returns the
\* same frame as long as no env.pop or env.push comes in between.
C20_FinalizationKeeps ==
  [][/\ pc = "record_last" /\ pc' # "record_last" =>
          env' = env /\ prev_agent_outputs' = prev_agent_outputs
     /\ EnvCanPop(env) /\ env_pops' = env_pops /\ pushed' = pushed =>
          EnvCanPop(env') /\ peek(env') = peek(env)]_vars

\* The overlap frame has been recorded after two iterations while the
\* environment holds two buffered frames.
C20_Witness ==
  /\ pc = "peek_n"
  /\ step >= 2
  /\ Len(env.output_queue) >= 2
  /\ \A p \in PortsOf :
       gamestates[p][Len(gamestates[p])] = peek(env)

\* C21: the initial_state of the trajectory a rollout() call returns is, for
\* each agent, its recurrent state after processing exactly the states pushed
\* to it in the earlier calls, which is the state from which it processes
\* that trajectory's states[0]; whenever a call can start, no agent holds an
\* unprocessed state.  (An agent's recurrent state counts the states it has
\* processed, and the state of frame t is the t + 1st state pushed.)
C21_RecurrentContinuity ==
  /\ pc = "idle" =>
       \A p \in PortsOf :
         agents[p].state_queue = <<>> /\ agents[p].hidden_state = env_pops
  /\ caller = "rollout" =>
       \A p \in PortsOf :
         gamestates[p] # <<>> => initial_states[p] = gamestates[p][1].t
  /\ Returned =>
       \A p \in PortsOf :
         trajectories[p].initial_state = trajectories[p].states[1].t

\* With asynchronous inference, a second rollout has returned for an agent
\* whose delay is min_delay, and its snapshot follows processed states.
C21_Witness ==
  /\ Returned
  /\ async_inference
  /\ num_steps >= 1
  /\ \E p \in PortsOf :
       /\ agents[p].delay = MinDelayOf
       /\ trajectories[p].initial_state >= 2

\* ----- Policy: unroll and multi_sample (policies.py) -------------------------
MaxUnrollLength == 5
MaxStates == 3
HiddenSeeds == {0, 1}

Min2(a, b) == IF a <= b THEN a ELSE b
Max2(a, b) == IF a >= b THEN a ELSE b

\* Python slice bounds: a negative index counts from the end, and both ends
\* are clamped to the sequence.
PyIndex(i, n) == IF i < 0 THEN Max2(i + n, 0) ELSE Min2(i, n)

\* t[:hi]
SliceTo(t, hi) == SubSeq(t, 1, PyIndex(hi, Len(t)))

\* t[lo:]
SliceFrom(t, lo) == SubSeq(t, PyIndex(lo, Len(t)) + 1, Len(t))

\* Variant: the whole tensor is kept.
SliceFromStart(t, lo) == t

\* A recurrent state is what the network was started from and the inputs it
\* has consumed since.
RecurrentState(seed) == [seed |-> seed, consumed |-> <<>>]
Consumed(state, inputs) == [state EXCEPT !.consumed = @ \o inputs]

\* network.step(input, state): the output is computed from the state the
\* input leaves behind.
NetworkStep(input, state) ==
  [output |-> [from |-> Consumed(state, <<input>>)],
   final_state |-> Consumed(state, <<input>>)]

\* network.unroll(inputs, state): one output per input, and the state left by
\* the last one.
NetworkUnroll(inputs, state) ==
  [outputs |-> [i \in 1..Len(inputs) |->
                  [from |-> Consumed(state, SubSeq(inputs, 1, i))]],
   final_state |-> Consumed(state, inputs)]

\* embed_state_action: one embedded input per time step, from the state, the
\* action and the name of that step (all three of one length).
EmbedStateAction(sa) ==
  [i \in 1..Len(sa.state) |->
     [state |-> sa.state[i], action |-> sa.action[i], name |-> sa.name[i]]]

\* controller_head.distance(outputs, prev_action, next_action), per step.
Distance(outs, prev_action, next_action) ==
  [i \in 1..Len(outs) |->
     [output |-> outs[i], prev_action |-> prev_action[i],
      next_action |-> next_action[i]]]

\* controller_head.sample(output, prev_action)
ControllerSample(out, prev_action) ==
  [sampled_from |-> out, prev_action |-> prev_action]

\* value_head(outputs), per step.
ValueHead(outs) == [i \in 1..Len(outs) |-> [value_of |-> outs[i]]]

\* Frames of length L: states, actions and names of L steps and the L - 1
\* rewards between them, each tagged with its time index.
Frames(L) ==
  [state  |-> [i \in 1..L |-> i - 1],
   action |-> [i \in 1..L |-> i - 1],
   name   |-> [i \in 1..L |-> i - 1],
   reward |-> [i \in 1..(L - 1) |-> i - 1]]

\* A list of n game states, time-indexed.
GameList(n) == [type |-> "list", items |-> [i \in 1..n |-> i - 1]]

\* No RolloutWorker is involved: its variables hold nothing.
NoWorker ==
  /\ pc = Absent
  /\ agents = Absent
  /\ env = Absent
  /\ async_inference = Absent
  /\ async_envs = Absent
  /\ prev_agent_outputs = Absent
  /\ prime_left = Absent
  /\ caller = Absent
  /\ outputs = Absent
  /\ num_steps = Absent
  /\ step = Absent
  /\ output = Absent
  /\ gamestates = Absent
  /\ sample_outputs = Absent
  /\ is_resetting = Absent
  /\ initial_states = Absent
  /\ delayed_actions = Absent
  /\ trajectories = Absent
  /\ pushed = Absent
  /\ env_pops = Absent
  /\ peek_log = Absent
  /\ prev_overlap = Absent
  /\ players = Absent
  /\ live = Absent
  /\ failed_op = Absent
  /\ failures = Absent

\* Policy.__init__ and one call: unroll(frames, initial_state) with
\* 0 <= delay < L, or multi_sample(states, prev_action, name_code,
\* initial_state).
InitPolicy ==
  /\ NoWorker
  /\ manager = Absent
  /\ evaluator = Absent
  /\ \E train_value_head \in BOOLEAN, seed \in HiddenSeeds :
       \/ \E L \in 1..MaxUnrollLength, D \in 0..MaxDelay :
            /\ D < L
            /\ policy = [delay |-> D, train_value_head |-> train_value_head,
                         call |-> "unroll", at |-> "called",
                         frames |-> Frames(L),
                         initial_state |-> RecurrentState(seed),
                         locals |-> <<>>, result |-> <<>>]
       \/ \E n \in 0..MaxStates, D \in 0..MaxDelay :
            policy = [delay |-> D, train_value_head |-> train_value_head,
                      call |-> "multi_sample", at |-> "called",
                      states |-> GameList(n), prev_action |-> Dummy,
                      name_code |-> 0,
                      initial_state |-> RecurrentState(seed),
                      locals |-> <<>>, result |-> <<>>]

\* unroll, lines 72-85: match state t with action t + delay.
UnrollSlice ==
  /\ policy.call = "unroll" /\ policy.at = "called"
  /\ LET delay == policy.delay
         state_action == policy.frames
         unroll_length == Len(state_action.state) - delay
         delayed_state_action ==
           [state  |-> SliceTo(state_action.state, unroll_length),
            action |-> SliceFrom(state_action.action, delay),
            name   |-> SliceFrom(state_action.name, delay)]
     IN policy' = [policy EXCEPT
                     !.at = "sliced",
                     !.locals = [delayed_state_action |-> delayed_state_action]]
  /\ UNCHANGED <<worker_vars, manager, evaluator>>

\* unroll, lines 88-90: all inputs but the last go through the network.
UnrollNetwork ==
  /\ policy.call = "unroll" /\ policy.at = "sliced"
  /\ LET all_inputs == EmbedStateAction(policy.locals.delayed_state_action)
         inputs == SliceTo(all_inputs, -1)
         last_input == all_inputs[Len(all_inputs)]
         unrolled == NetworkUnroll(inputs, policy.initial_state)
     IN policy' = [policy EXCEPT
                     !.at = "unrolled",
                     !.locals = [delayed_state_action |-> @.delayed_state_action,
                                 inputs |-> inputs,
                                 last_input |-> last_input,
                                 outputs |-> unrolled.outputs,
                                 final_state |-> unrolled.final_state]]
  /\ UNCHANGED <<worker_vars, manager, evaluator>>

\* unroll, lines 93-107: every output predicts the next action from the
\* previous one; log_probs is the negated loss.
UnrollLogProbs ==
  /\ policy.call = "unroll" /\ policy.at = "unrolled"
  /\ LET action == policy.locals.delayed_state_action.action
         prev_action == SliceTo(action, -1)
         next_action == SliceFrom(action, 1)
         distances == Distance(policy.locals.outputs, prev_action, next_action)
         log_probs == [i \in 1..Len(distances) |-> [minus |-> distances[i]]]
     IN policy' = [policy EXCEPT
                     !.at = "scored",
                     !.locals = [delayed_state_action |-> @.delayed_state_action,
                                 inputs |-> @.inputs,
                                 last_input |-> @.last_input,
                                 outputs |-> @.outputs,
                                 final_state |-> @.final_state,
                                 log_probs |-> log_probs]]
  /\ UNCHANGED <<worker_vars, manager, evaluator>>

\* Variant of line 110: every reward is used.
UnrollRewardsAll == SliceFromStart(policy.frames.reward, policy.delay)

\* unroll, line 110: only rewards that follow actions.
UnrollRewards == SliceFrom(policy.frames.reward, policy.delay)

\* unroll, lines 110-139: rewards, values and value targets. self.value_head
\* exists only in a policy built with train_value_head (lines 43-44).
UnrollValues ==
  /\ policy.call = "unroll" /\ policy.at = "scored"
  /\ IF policy.train_value_head
       THEN LET rewards == UnrollRewards
                values == ValueHead(policy.locals.outputs)
                last == NetworkStep(policy.locals.last_input,
                                    policy.locals.final_state)
                last_value == [value_of |-> last.output]
            IN policy' = [policy EXCEPT
                            !.at = "valued",
                            !.locals = [delayed_state_action |-> @.delayed_state_action,
                                        inputs |-> @.inputs,
                                        last_input |-> @.last_input,
                                        outputs |-> @.outputs,
                                        final_state |-> @.final_state,
                                        log_probs |-> @.log_probs,
                                        rewards |-> rewards,
                                        values |-> values,
                                        last_value |-> last_value]]
       ELSE policy' = [policy EXCEPT !.at = "AttributeError"]
  /\ UNCHANGED <<worker_vars, manager, evaluator>>

\* unroll, lines 141-145.
UnrollReturn ==
  /\ policy.call = "unroll" /\ policy.at = "valued"
  /\ policy' = [policy EXCEPT
                  !.at = "returned",
                  !.result = [log_probs |-> policy.locals.log_probs,
                              values |-> policy.locals.values,
                              final_state |-> policy.locals.final_state,
                              rewards |-> policy.locals.rewards]]
  /\ UNCHANGED <<worker_vars, manager, evaluator>>

\* Python's range(x): the integers below an integer x; any other argument
\* is a TypeError.
PyRange(x) ==
  IF x.type = "int"
    THEN [raised |-> "none", items |-> [i \in 1..x.value |-> i - 1]]
    ELSE [raised |-> "TypeError", items |-> <<>>]

\* Policy.sample, lines 177-183.
Sample(state_action, initial_state) ==
  LET input == EmbedStateAction([state  |-> <<state_action.state>>,
                                 action |-> <<state_action.action>>,
                                 name   |-> <<state_action.name>>])[1]
      stepped == NetworkStep(input, initial_state)
  IN [next_action |-> ControllerSample(stepped.output, state_action.action),
      final_state |-> stepped.final_state]

\* The loop of multi_sample, lines 195-204, over the games still to come.
RECURSIVE SampleLoop(_, _, _, _, _)
SampleLoop(games, prev_action, name_code, hidden_state, actions) ==
  IF games = <<>>
    THEN [actions |-> actions, hidden_state |-> hidden_state]
    ELSE LET state_action == [state |-> Head(games), action |-> prev_action,
                              name |-> name_code]
             sampled == Sample(state_action, hidden_state)
         IN SampleLoop(Tail(games), sampled.next_action, name_code,
                       sampled.final_state,
                       Append(actions, sampled.next_action))

\* multi_sample, lines 193-206: the loop runs over range(states).
MultiSample ==
  /\ policy.call = "multi_sample" /\ policy.at = "called"
  /\ LET games == PyRange(policy.states)
     IN IF games.raised # "none"
          THEN policy' = [policy EXCEPT !.at = games.raised]
          ELSE policy' = [policy EXCEPT
                            !.at = "returned",
                            !.result = SampleLoop(games.items, policy.prev_action,
                                                  policy.name_code,
                                                  policy.initial_state, <<>>)]
  /\ UNCHANGED <<worker_vars, manager, evaluator>>

NextPolicy ==
  \/ UnrollSlice
  \/ UnrollNetwork
  \/ UnrollLogProbs
  \/ UnrollValues
  \/ UnrollReturn
  \/ MultiSample

\* A Policy and one call of unroll or multi_sample on it.
SpecPolicy == InitPolicy /\ [][NextPolicy]_vars

\* ----- run_lib: LearnerManager and the training loop (rl/run_lib.py) ---------
MaxStep == 4
MaxResetEvery == 2
MaxBurnin == 1
InitialParams == -1

\* Variant: the reset is due at step 0 too.
ResetDueFromZero(s) ==
  manager.reset_every_n_steps # 0 /\ s % manager.reset_every_n_steps = 0

\* run, line 311: reset_every_n_steps of None or 0 never resets.
ResetDue(s) ==
  s > 0 /\ manager.reset_every_n_steps # 0 /\ s % manager.reset_every_n_steps = 0

\* The actor self.actor refers to.
TheActor == manager.actors[manager.actor]

\* A RolloutWorker as build_actor returns it: its agents hold the parameters
\* of the pretraining state.
NewActor ==
  [state |-> "built", starts |-> 0, stops |-> 0, params |-> InitialParams,
   fresh |-> FALSE, busy |-> FALSE, updated_busy |-> FALSE,
   rollout_after_stop |-> FALSE]

\* run up to the LearnerManager constructor, which has stored its arguments
\* and is about to call initialize_actor (lines 95-107, 239-246).
InitRun ==
  /\ NoWorker
  /\ policy = Absent
  /\ evaluator = Absent
  /\ \E max_step \in 0..MaxStep, every \in 0..MaxResetEvery, burnin \in 0..MaxBurnin :
       manager = [max_step |-> max_step,
                  reset_every_n_steps |-> every,
                  burnin_steps_after_reset |-> burnin,
                  at |-> "build", in_try |-> FALSE, raising |-> FALSE,
                  step |-> 0, burnin_left |-> 0, train |-> FALSE,
                  actors |-> <<>>, actor |-> 0, version |-> 0,
                  reset_steps |-> {}, failures |-> 0]

\* initialize_actor, line 110.
BuildActor ==
  /\ manager.at = "build"
  /\ manager' = [manager EXCEPT !.actors = Append(@, NewActor),
                                !.actor = Len(manager.actors) + 1,
                                !.at = "start"]
  /\ UNCHANGED <<worker_vars, policy, evaluator>>

\* initialize_actor, line 111.
StartActor ==
  /\ manager.at = "start"
  /\ manager' = [manager EXCEPT
                   !.actors[manager.actor].state = "started",
                   !.actors[manager.actor].starts = @ + 1,
                   !.burnin_left = manager.burnin_steps_after_reset,
                   !.at = "burnin"]
  /\ UNCHANGED <<worker_vars, policy, evaluator>>

\* step, line 122: the rollout is called on self.actor.
RolloutCalled(train) ==
  [manager EXCEPT
     !.train = train,
     !.actors[manager.actor].busy = TRUE,
     !.actors[manager.actor].rollout_after_stop =
        @ \/ TheActor.state # "started",
     !.at = "rollout"]

\* initialize_actor, lines 112-113: the next burn-in step, step(train=False).
BurninStep ==
  /\ manager.at = "burnin" /\ manager.burnin_left > 0
  /\ manager' = RolloutCalled(FALSE)
  /\ UNCHANGED <<worker_vars, policy, evaluator>>

\* initialize_actor returns: to the constructor, which returns to run (the
\* try statement is entered, lines 307-308), or to reset_actor and the loop
\* body (line 314).
InitializeActorReturns ==
  /\ manager.at = "burnin" /\ manager.burnin_left = 0
  /\ manager' = [manager EXCEPT
                   !.at = IF manager.in_try THEN "update" ELSE "loop",
                   !.in_try = TRUE]
  /\ UNCHANGED <<worker_vars, policy, evaluator>>

\* run, lines 308-312: the loop ends, or resets the actor, or goes on.
LoopHead ==
  /\ manager.at = "loop"
  /\ manager' = [manager EXCEPT
                   !.at = IF manager.step >= manager.max_step THEN "finally"
                          ELSE IF ResetDue(manager.step) THEN "reset_stop"
                          ELSE "update"]
  /\ UNCHANGED <<worker_vars, policy, evaluator>>

\* reset_actor, line 117; initialize_actor follows.
ResetActorStop ==
  /\ manager.at = "reset_stop"
  /\ manager' = [manager EXCEPT
                   !.actors[manager.actor].state = "stopped",
                   !.actors[manager.actor].stops = @ + 1,
                   !.reset_steps = @ \cup {manager.step},
                   !.at = "build"]
  /\ UNCHANGED <<worker_vars, policy, evaluator>>

\* run, lines 314-315: the learner's variables are assigned to the agents of
\* self.actor (RolloutWorker.update_variables).
UpdateVariables ==
  /\ manager.at = "update"
  /\ manager' = [manager EXCEPT
                   !.actors[manager.actor].params = manager.version,
                   !.actors[manager.actor].fresh = TRUE,
                   !.actors[manager.actor].updated_busy = @ \/ TheActor.busy,
                   !.at = "train"]
  /\ UNCHANGED <<worker_vars, policy, evaluator>>

\* run, line 322: learner_manager.step().
TrainStep ==
  /\ manager.at = "train"
  /\ manager' = RolloutCalled(TRUE)
  /\ UNCHANGED <<worker_vars, policy, evaluator>>

\* step, lines 122-123: the rollout returns.
RolloutReturns ==
  /\ manager.at = "rollout"
  /\ manager' = [manager EXCEPT
                   !.actors[manager.actor].busy = FALSE,
                   !.actors[manager.actor].fresh = FALSE,
                   !.at = "learn"]
  /\ UNCHANGED <<worker_vars, policy, evaluator>>

\* step, lines 125-128: the learner's step changes its variables when
\* training; then the next burn-in step or the next iteration of the loop.
LearnerStep ==
  /\ manager.at = "learn"
  /\ manager' = IF manager.train
                  THEN [manager EXCEPT !.version = @ + 1,
                                       !.step = @ + 1,
                                       !.at = "loop"]
                  ELSE [manager EXCEPT !.burnin_left = @ - 1,
                                       !.at = "burnin"]
  /\ UNCHANGED <<worker_vars, policy, evaluator>>

\* run, lines 327-328: learner_manager.actor.stop().
FinallyStop ==
  /\ manager.at = "finally"
  /\ manager' = [manager EXCEPT
                   !.actors[manager.actor].state = "stopped",
                   !.actors[manager.actor].stops = @ + 1,
                   !.at = IF manager.raising THEN "raised" ELSE "returned"]
  /\ UNCHANGED <<worker_vars, policy, evaluator>>

\* An exception leaves the constructor (called before the try statement,
\* lines 239-246) and run with it; inside the try statement it goes through
\* the finally clause (lines 307, 327).
Propagated(m) ==
  [m EXCEPT !.raising = TRUE,
            !.failures = @ + 1,
            !.at = IF manager.in_try THEN "finally" ELSE "raised"]

\* build_actor, start, rollout, the learner's step, stop or update_variables
\* raises. A rollout that raises is over; a stop that raises has been called.
OperationRaises ==
  /\ manager.failures < MaxFailures
  /\ \/ /\ manager.at \in {"build", "start", "learn", "update"}
        /\ manager' = Propagated(manager)
     \/ /\ manager.at = "rollout"
        /\ manager' = Propagated([manager EXCEPT
                                    !.actors[manager.actor].busy = FALSE,
                                    !.actors[manager.actor].fresh = FALSE])
     \/ /\ manager.at = "reset_stop"
        /\ manager' = Propagated([manager EXCEPT
                                    !.actors[manager.actor].stops = @ + 1,
                                    !.reset_steps = @ \cup {manager.step}])
  /\ UNCHANGED <<worker_vars, policy, evaluator>>

\* The stop of the finally clause raises.
FinallyStopRaises ==
  /\ manager.at = "finally"
  /\ manager.failures < MaxFailures
  /\ manager' = [manager EXCEPT
                   !.actors[manager.actor].stops = @ + 1,
                   !.raising = TRUE,
                   !.failures = @ + 1,
                   !.at = "raised"]
  /\ UNCHANGED <<worker_vars, policy, evaluator>>

NextRun ==
  \/ BuildActor
  \/ StartActor
  \/ BurninStep
  \/ InitializeActorReturns
  \/ LoopHead
  \/ ResetActorStop
  \/ UpdateVariables
  \/ TrainStep
  \/ RolloutReturns
  \/ LearnerStep
  \/ FinallyStop
  \/ OperationRaises
  \/ FinallyStopRaises

\* run_lib.run from the construction of the LearnerManager on, with
\* operations that may raise.
SpecRun == InitRun /\ [][NextRun]_vars

\* ----- RayEvaluator and its remote workers (evaluators.py) -------------------
MaxWorkers == 2
MaxCalls == 2

Workers == 1..evaluator.num_workers

\* worker.<method>.remote(...): the task joins the worker's queue; the object
\* reference names the worker and the task's place in the worker's history.
Submitted(e, task) ==
  [e EXCEPT !.queue = [w \in DOMAIN @ |-> Append(@[w], task)],
            !.submitted = [w \in DOMAIN @ |-> @[w] + 1]]

\* The references of the tasks submitted last, one per worker.
LastRefs(e) == [w \in DOMAIN e.submitted |-> e.submitted[w]]

\* A task is finished when its worker has completed that many tasks (a Ray
\* actor runs the tasks of one caller one at a time in submission order).
Ready(w, ref) == evaluator.completed[w] >= ref

\* ray.wait(refs): num_returns is 1 unless given, so it returns as soon as one
\* of the tasks is finished.
RayWaitReturns(refs) == \E w \in DOMAIN refs : Ready(w, refs[w])

\* ray.get(refs) returns when all of the tasks are finished.
RayGetReturns(refs) == \A w \in DOMAIN refs : Ready(w, refs[w])

\* RayEvaluator.__init__, lines 319-333: num_workers remote RolloutWorkers; the
\* caller is about to enter run().
InitRay ==
  /\ NoWorker
  /\ policy = Absent
  /\ manager = Absent
  /\ \E n \in 1..MaxWorkers :
       evaluator = [num_workers |-> n,
                    at |-> "run",
                    calls |-> 0,
                    version |-> 0,
                    last_call |-> "none",
                    awaited |-> [w \in 1..n |-> 0],
                    queue |-> [w \in 1..n |-> <<>>],
                    submitted |-> [w \in 1..n |-> 0],
                    completed |-> [w \in 1..n |-> 0],
                    workers |-> [w \in 1..n |->
                                   [started |-> FALSE, stopped |-> FALSE,
                                    params |-> 0, rollouts |-> <<>>]]]

\* run, line 372: start() is submitted to every worker, then ray.wait.
RunStart ==
  /\ evaluator.at = "run"
  /\ LET e == Submitted(evaluator, [op |-> "start", arg |-> 0])
     IN evaluator' = [e EXCEPT !.awaited = LastRefs(e), !.at = "start_wait"]
  /\ UNCHANGED <<worker_vars, policy, manager>>

\* run, lines 372-373: ray.wait returns and the body of run() begins.
RunYield ==
  /\ evaluator.at = "start_wait"
  /\ RayWaitReturns(evaluator.awaited)
  /\ evaluator' = [evaluator EXCEPT !.at = "body"]
  /\ UNCHANGED <<worker_vars, policy, manager>>

\* update_variables, lines 338-340: submitted to every worker, then ray.wait.
RayUpdateVariables ==
  /\ evaluator.at = "body"
  /\ evaluator.calls < MaxCalls
  /\ LET v == evaluator.version + 1
         e == Submitted(evaluator, [op |-> "update_variables", arg |-> v])
     IN evaluator' = [e EXCEPT !.awaited = LastRefs(e),
                               !.version = v,
                               !.calls = @ + 1,
                               !.last_call = "update_variables",
                               !.at = "update_wait"]
  /\ UNCHANGED <<worker_vars, policy, manager>>

\* update_variables returns when ray.wait does.
RayUpdateVariablesReturns ==
  /\ evaluator.at = "update_wait"
  /\ RayWaitReturns(evaluator.awaited)
  /\ evaluator' = [evaluator EXCEPT !.at = "body"]
  /\ UNCHANGED <<worker_vars, policy, manager>>

\* rollout, lines 347-355: with policy_vars, update_variables is submitted to
\* every worker and not waited for; then rollout is submitted to every worker
\* and ray.get waits for the results.
RayRollout(with_policy_vars) ==
  /\ evaluator.at = "body"
  /\ evaluator.calls < MaxCalls
  /\ LET v == IF with_policy_vars THEN evaluator.version + 1 ELSE evaluator.version
         updated == IF with_policy_vars
                      THEN Submitted(evaluator, [op |-> "update_variables", arg |-> v])
                      ELSE evaluator
         e == Submitted(updated, [op |-> "rollout", arg |-> v])
     IN evaluator' = [e EXCEPT !.awaited = LastRefs(e),
                               !.version = v,
                               !.calls = @ + 1,
                               !.last_call = "rollout",
                               !.at = "rollout_get"]
  /\ UNCHANGED <<worker_vars, policy, manager>>

\* rollout, lines 355-367: ray.get returns the results of every worker.
RayRolloutReturns ==
  /\ evaluator.at = "rollout_get"
  /\ RayGetReturns(evaluator.awaited)
  /\ evaluator' = [evaluator EXCEPT !.at = "body"]
  /\ UNCHANGED <<worker_vars, policy, manager>>

\* run, lines 378-379: the body is left; stop() is submitted to every worker,
\* then ray.wait.
RunFinally ==
  /\ evaluator.at = "body"
  /\ LET e == Submitted(evaluator, [op |-> "stop", arg |-> 0])
     IN evaluator' = [e EXCEPT !.awaited = LastRefs(e), !.at = "stop_wait"]
  /\ UNCHANGED <<worker_vars, policy, manager>>

\* run() returns when the ray.wait of the finally clause does.
RunReturns ==
  /\ evaluator.at = "stop_wait"
  /\ RayWaitReturns(evaluator.awaited)
  /\ evaluator' = [evaluator EXCEPT !.at = "returned"]
  /\ UNCHANGED <<worker_vars, policy, manager>>

\* What a task does to the RolloutWorker that runs it (start, stop,
\* update_variables, rollout: lines 238-246, 222-228, 121-220).
Executed(worker, task) ==
  IF task.op = "start" THEN [worker EXCEPT !.started = TRUE]
  ELSE IF task.op = "stop" THEN [worker EXCEPT !.stopped = TRUE]
  ELSE IF task.op = "update_variables" THEN [worker EXCEPT !.params = task.arg]
  ELSE [worker EXCEPT !.rollouts = Append(@, [wanted |-> task.arg,
                                              had |-> worker.params])]

\* A remote worker runs the task at the head of its queue to completion.
WorkerRuns(w) ==
  /\ w \in Workers
  /\ evaluator.queue[w] # <<>>
  /\ evaluator' = [evaluator EXCEPT
                     !.workers[w] = Executed(@, Head(evaluator.queue[w])),
                     !.queue[w] = Tail(@),
                     !.completed[w] = @ + 1]
  /\ UNCHANGED <<worker_vars, policy, manager>>

NextRay ==
  \/ RunStart
  \/ RunYield
  \/ RayUpdateVariables
  \/ RayUpdateVariablesReturns
  \/ \E with_policy_vars \in BOOLEAN : RayRollout(with_policy_vars)
  \/ RayRolloutReturns
  \/ RunFinally
  \/ RunReturns
  \/ \E w \in 1..MaxWorkers : WorkerRuns(w)

\* A RayEvaluator used inside its run() context.
SpecRay == InitRay /\ [][NextRay]_vars

\* ----- properties of the learner side ----------------------------------------
UnrollEnded ==
  policy.call = "unroll" /\ policy.at \in {"returned", "AttributeError"}

\* What unroll returns is aligned: with L frames and delay D, state t is paired
\* with action t + D for t in 0..L-D-1, the rewards are those of [D, L-1), the
\* three sequences have length L - D - 1, and the final recurrent state has
\* consumed the states [0, L-D-1) with their paired actions, nothing else.
UnrollAligned ==
  LET L == Len(policy.frames.state)
      D == policy.delay
      paired == [i \in 1..(L - D) |->
                   [state |-> policy.frames.state[i],
                    action |-> policy.frames.action[i + D],
                    name |-> policy.frames.name[i + D]]]
  IN /\ EmbedStateAction(policy.locals.delayed_state_action) = paired
     /\ \A i \in 1..(L - D) : paired[i].state = i - 1 /\ paired[i].action = i - 1 + D
     /\ policy.result.rewards = [i \in 1..(L - D - 1) |-> D + i - 1]
     /\ Len(policy.result.log_probs) = L - D - 1
     /\ Len(policy.result.values) = L - D - 1
     /\ Len(policy.result.rewards) = L - D - 1
     /\ \A i \in 1..(L - D - 1) :
          /\ policy.result.log_probs[i].minus.output.from.consumed = SubSeq(paired, 1, i)
          /\ policy.result.log_probs[i].minus.prev_action = D + i - 1
          /\ policy.result.log_probs[i].minus.next_action = D + i
          /\ policy.result.values[i].value_of.from.consumed = SubSeq(paired, 1, i)
     /\ policy.result.final_state =
          Consumed(policy.initial_state, SubSeq(paired, 1, L - D - 1))

\* C22: Policy.unroll on frames of length L with delay D, 0 <= D < L, returns
\* log-prob, value and reward sequences of length L - D - 1 that pair state t
\* with action t + D and use the rewards [D, L-1), and a final recurrent state
\* computed from the states [0, L-D-1) only.
C22_UnrollAlignment ==
  UnrollEnded => (policy.at = "returned" /\ UnrollAligned)

\* Every unroll that returns is aligned.
C22_ReturnedAligned ==
  (policy.call = "unroll" /\ policy.at = "returned") => UnrollAligned

C22_ReturnedWitness ==
  /\ policy.call = "unroll" /\ policy.at = "returned"
  /\ policy.delay = 2 /\ Len(policy.frames.state) = 5

\* C26: multi_sample on a list of n states returns n actions in state order
\* and the final recurrent state, step j sampling from state j with the
\* recurrent state and the action left by step j - 1.
C26_MultiSampleSteps ==
  (policy.call = "multi_sample" /\ policy.at # "called") =>
    /\ policy.at = "returned"
    /\ Len(policy.result.actions) = Len(policy.states.items)
    /\ policy.result = SampleLoop(policy.states.items, policy.prev_action,
                                  policy.name_code, policy.initial_state, <<>>)

TrainingRollout == manager.at = "rollout" /\ manager.train

RunEnded == manager.at \in {"returned", "raised"}

\* C24: every actor the LearnerManager builds and starts has been stopped
\* exactly once when run ends, however it ends; no actor is stopped twice, at
\* most one actor is live at a time, and no rollout is called on a stopped
\* actor.
C24_ActorLifecycle ==
  /\ \A i \in 1..Len(manager.actors) :
       /\ manager.actors[i].stops <= 1
       /\ ~manager.actors[i].rollout_after_stop
       /\ RunEnded /\ manager.actors[i].starts >= 1 => manager.actors[i].stops = 1
  /\ Cardinality({i \in 1..Len(manager.actors) :
                    manager.actors[i].stops = 0}) <= 1

\* Every rollout a worker has executed ran on the policy_vars of its call.
RolloutsUpdated ==
  \A w \in Workers :
    \A i \in 1..Len(evaluator.workers[w].rollouts) :
      evaluator.workers[w].rollouts[i].had = evaluator.workers[w].rollouts[i].wanted

\* C25: update_variables has returned only when every worker has applied the
\* update, the body of run() runs only when every worker's start() has
\* completed, run() has returned only when every worker's stop() has
\* completed, and every worker applies the policy_vars of a rollout call
\* before it executes that rollout.
C25_DistributedCompletion ==
  /\ evaluator.at = "body" /\ evaluator.last_call = "update_variables" =>
       \A w \in Workers : evaluator.workers[w].params = evaluator.version
  /\ evaluator.at \in {"body", "update_wait", "rollout_get"} =>
       \A w \in Workers : evaluator.workers[w].started
  /\ evaluator.at = "returned" =>
       \A w \in Workers : evaluator.workers[w].stopped
  /\ RolloutsUpdated

\* The part of C25 about rollout(num_steps, policy_vars).
C25_RolloutsUpdated == RolloutsUpdated

C25_RolloutWitness ==
  /\ evaluator.num_workers > 1
  /\ \A w \in Workers :
       /\ Len(evaluator.workers[w].rollouts) = 2
       /\ evaluator.workers[w].rollouts[2].wanted = 2

====
